---- MODULE Spec2Model ----
(***************************************************************************)
(* SpaceDebris, src/app.py: the sliding-window RateLimiter, the DataCache  *)
(* with its ttl, the fetch cycle of fetch_space_objects and the per-client *)
(* update loop of websocket_endpoint, run by several websocket sessions on *)
(* one asyncio event loop.                                                 *)
(*                                                                         *)
(* Scheduling: the sessions are coroutines of one event loop, so a step of *)
(* the model is the code one session runs between two suspensions (a       *)
(* network await or an asyncio.sleep).  acquire, DataCache.get and         *)
(* DataCache.set never suspend: they run inside the step that calls them.  *)
(*                                                                         *)
(* Time: the code stores datetime.now() and compares (now - stamp) with a  *)
(* limit.  The model stores the age now - stamp of every stamp and the     *)
(* remaining time of every asyncio.sleep; Tick lets d seconds pass.  An    *)
(* age stops growing one second past the limit it is compared with.        *)
(*                                                                         *)
(* The two fan-out servers have their own variables and specifications:    *)
(* OrbitVisualizer of src/src/visualization/orbit_visualizer.py (SyncSpec, *)
(* HubSpec) and DebrisServer of src/src/server.py (ServerSpec).            *)
(* So have the libraries of the data clients: CacheManager of             *)
(* src/src/data/cache_manager.py (CacheSpec) and the risk level of         *)
(* ESAClient._process_debris_data, src/src/data/esa_client.py (EsaSpec).   *)
(***************************************************************************)
EXTENDS Integers, Sequences, FiniteSets, TLC

\* The websocket sessions (clients of /ws).
Sessions == {"s1", "s2"}

\* The session that runs alone under SoloSpec.
Solo == "s1"

\* The amounts of time, in seconds, that one Tick lets pass.
TickSteps == {30, 60}

\* Python's None, and a Python list, as values of one shape.
None == [is_none |-> TRUE, list |-> <<>>]
List(l) == [is_none |-> FALSE, list |-> l]

\* self.last_update = None: no timestamp yet.
NoStamp == 0 - 1

\* No message sent yet in this cycle.
NoMsg == [type |-> "none"]

\* No response was received in the step just taken.
NoResp == [who |-> "nobody"]

\* process_space_objects was not called, or has not returned yet.
NoArg == [kind |-> "none"]
NoResult == [done |-> FALSE, value |-> None]

\* rate_limiter = RateLimiter(requests_per_window=1, window_seconds=60)
requests_per_window == 1
window_seconds == 60

\* DataCache.__init__(ttl_seconds=300)
ttl_seconds == 300

\* fetch_space_objects: max_retries = 3, retry_delay = 60, the cap of the
\* rate-limit backoff, and the poll interval of wait_for_slot.
max_retries == 3
initial_retry_delay == 60
backoff_cap == 300
poll_interval == 1

\* websocket_endpoint: max_retries = 3, retry_delay = 60, and the pause
\* between two cycles.
ws_max_retries == 3
ws_retry_delay == 60
cycle_pause == 5

VARIABLES
    requests,       \* rate_limiter.requests, as the ages of its timestamps
    cache,          \* space_objects_cache: [data, last_update (an age)]
    pc,             \* pc[s]: where session s is suspended
    attempt,        \* attempt[s]: loop variable of fetch_space_objects
    retry_delay,    \* retry_delay[s]: local of fetch_space_objects
    timer,          \* timer[s]: seconds left of the session's asyncio.sleep
    space_objects,  \* space_objects[s]: local of websocket_endpoint
    retry_count,    \* retry_count[s]: local of websocket_endpoint
    retval,         \* retval[s]: what fetch_space_objects is returning
    outbox,         \* outbox[s]: the last message sent in the current cycle
    acquired,       \* history: what acquire returned in the step just taken
    got,            \* history: who received which response in that step
    admitted,       \* history: ages (< window) of all admitted acquires
    written,        \* history: [data, age] of the last DataCache.set call
    seen,           \* history: seen[s], the valid entry found at cycle start
    slots,          \* history: slots[s], admitted acquires in this cycle
    reqs,           \* history: reqs[s], upstream requests in this cycle
    tracked,        \* history: the sessions whose rate-limit sleeps are kept
    backoffs,       \* history: backoffs[s], the rate-limit sleeps of the fetch
    arg,            \* TransformSpec: the value handed to process_space_objects
    result          \* TransformSpec: what process_space_objects returned

VARIABLES
    credentials     \* SPACE_TRACK_USER and SPACE_TRACK_PASS are both set

VARIABLES
    all_objects,        \* visualizer.all_objects
    connected_clients,  \* visualizer.connected_clients, a list
    alive,              \* alive[c]: the peer of websocket c has not closed it
    wpc,                \* wpc[c]: where the endpoint of websocket c is suspended
    updated_objects,    \* updated_objects[c]: local of register_client
    index,              \* index[c]: loop variable i of register_client
    inbox,              \* history: inbox[c], the batches c received and the
                        \* pauses of its initial sync, in order
    sync_failed,        \* history: the clients a batch could not be sent to
    bcast,              \* broadcast_message: [pc, idx (the position of the
                        \* list iterator), cur (the client being sent to),
                        \* disconnected_clients]
    attempted,          \* history: attempted[c], sends to c of this broadcast
    received,           \* history: received[c], those that succeeded
    at_start,           \* history: the registry when this broadcast started
    stayed,             \* history: its clients never removed by another task
    mutated             \* history: another task changed the registry during
                        \* this broadcast

VARIABLES
    clients,            \* DebrisServer.clients, a set
    handler,            \* handler[k]: where handle_client of connection k is
    open                \* open[k]: the peer of connection k has not closed it

\* The state of src/app.py.
app_vars == <<requests, cache, pc, attempt, retry_delay, timer, space_objects,
              retry_count, retval, outbox, acquired, got,
              admitted, written, seen, slots, reqs, tracked, backoffs,
              arg, result, credentials>>

\* The state of src/src/visualization/orbit_visualizer.py.
hub_vars == <<all_objects, connected_clients, alive, wpc, updated_objects,
              index, inbox, sync_failed, bcast, attempted, received,
              at_start, stayed, mutated>>

\* The state of src/src/server.py.
server_vars == <<clients, handler, open>>

\* The state of the two fan-out servers.
fanout_vars == <<hub_vars, server_vars>>

VARIABLES
    debris_cache_file,  \* CacheManager: the data file, [exists, writer, whole]
    metadata_file,      \* CacheManager: [exists, writer, whole, last_update (an age
                        \* in minutes)]
    updates,            \* history: the update_cache calls made so far
    cached              \* history: what the last get_cached_data returned,
                        \* [hit, data (its writer), judged_by (the writer of
                        \* the metadata that made it valid)]

VARIABLES
    item,               \* ESAClient: the item handed to _process_debris_data
    processed_item      \* ESAClient: what it appended for the item

\* The state of src/src/data/cache_manager.py.
disk_vars == <<debris_cache_file, metadata_file, updates, cached>>

\* The state of src/src/data/esa_client.py.
esa_vars == <<item, processed_item>>

\* The state of the data clients' libraries.
lib_vars == <<disk_vars, esa_vars>>

vars == <<app_vars, fanout_vars, lib_vars>>

----------------------------------------------------------------------------
(* Payloads of the upstream provider.                                      *)

\* The value of one key of a raw record: the key is absent, the value is a
\* number (or a string float() accepts), or it is a string float() rejects.
Missing == [kind |-> "missing", n |-> 0]
Num(n) == [kind |-> "num", n |-> n]
Text == [kind |-> "text", n |-> 0]

\* OBJECT_TYPE is a string when it is there.
Absent == "<absent>"

\* An element of the array that is no JSON object (null, a string, a number).
NotADict ==
    [is_dict |-> FALSE, NORAD_CAT_ID |-> Missing, SEMIMAJOR_AXIS |-> Missing,
     ECCENTRICITY |-> Missing, INCLINATION |-> Missing, PERIGEE |-> Missing,
     OBJECT_TYPE |-> Absent]

\* A raw record with the given NORAD_CAT_ID, a payload in low orbit; numeric
\* says whether its SEMIMAJOR_AXIS is a number.
Rec(id, numeric) ==
    [is_dict |-> TRUE, NORAD_CAT_ID |-> Num(id),
     SEMIMAJOR_AXIS |-> IF numeric THEN Num(6800) ELSE Text,
     ECCENTRICITY |-> Num(0), INCLINATION |-> Num(51), PERIGEE |-> Num(400),
     OBJECT_TYPE |-> "PAYLOAD"]

\* The raw record lists the provider answers with.
RawLists ==
    { <<>>,
      <<Rec(1, TRUE), Rec(9, FALSE), Rec(2, TRUE)>>,
      <<Rec(3, TRUE)>>,
      <<Rec(9, FALSE)>> }

\* The decoded JSON bodies: an error object, a list, or another object.
Bodies ==
    { [kind |-> "error", error |-> "rate limit"],
      [kind |-> "error", error |-> "other"],
      [kind |-> "dict"] }
    \cup { [kind |-> "list", data |-> l] : l \in RawLists }

\* What client.get(...) and response.json() come back with.
Responses ==
    { [outcome |-> "exception"],
      [outcome |-> "status", status_code |-> 500],
      [outcome |-> "undecodable", status_code |-> 200] }
    \cup { [outcome |-> "json", status_code |-> 200, body |-> b] : b \in Bodies }

\* Python truthiness of a value that is None or a list.
Truthy(v) == ~v.is_none /\ v.list # <<>>

\* The call raised: it has no value.
Raised == [is_none |-> TRUE, list |-> <<>>, raised |-> TRUE]

\* float(obj.get(key, 0)) raises ValueError.
FloatRaises(v) == v.kind = "text"

\* float(obj.get(key, 0)) when it does not raise: 0 for an absent key.
Float(v) == IF v.kind = "missing" THEN 0 ELSE v.n

\* str.lower() on the type strings of the model.
Lower(s) ==
    CASE s = "DEBRIS" -> "debris"
      [] s = "Debris" -> "debris"
      [] s = "UNKNOWN" -> "unknown"
      [] s = "PAYLOAD" -> "payload"
      [] s = "ROCKET BODY" -> "rocket body"
      [] OTHER -> s

\* obj.get('OBJECT_TYPE', '').lower()
TypeLower(obj) == IF obj.OBJECT_TYPE = Absent THEN "" ELSE Lower(obj.OBJECT_TYPE)

\* obj.get('NORAD_CAT_ID', ''): the id as it came, 0 standing for ''.
EmptyId == 0
IdOf(obj) == IF obj.NORAD_CAT_ID.kind = "missing" THEN EmptyId
             ELSE obj.NORAD_CAT_ID.n

\* is_debris comparing the type as it came, without lower().
IsDebrisCaseSensitive(obj) ==
    (IF obj.OBJECT_TYPE = Absent THEN "" ELSE obj.OBJECT_TYPE)
        \in {"debris", "unknown"}

\* is_debris = obj.get('OBJECT_TYPE', '').lower() in ['debris', 'unknown']
IsDebris(obj) == TypeLower(obj) \in {"debris", "unknown"}

Min(a, b) == IF a < b THEN a ELSE b
Max(a, b) == IF a > b THEN a ELSE b

\* calculate_risk_level with the two altitude adjustments swapped.
calculate_risk_level_swapped(obj) ==
    LET perigee == Float(obj.PERIGEE)
        by_altitude == IF perigee < 500 THEN 50 - 20
                       ELSE IF perigee > 35000 THEN 50 + 20 ELSE 50
        risk == IF TypeLower(obj) = "debris" THEN by_altitude + 15
                ELSE by_altitude
    IN Max(0, Min(100, risk))

\* calculate_risk_level adding the 15 for every object that is_debris makes
\* debris, the unknown ones too.
calculate_risk_level_by_kind(obj) ==
    LET perigee == Float(obj.PERIGEE)
        by_altitude == IF perigee < 500 THEN 50 + 20
                       ELSE IF perigee > 35000 THEN 50 - 20 ELSE 50
        risk == IF IsDebris(obj) THEN by_altitude + 15 ELSE by_altitude
    IN Max(0, Min(100, risk))

\* calculate_risk_level(obj), when float(PERIGEE) does not raise.
calculate_risk_level(obj) ==
    LET perigee == Float(obj.PERIGEE)
        by_altitude == IF perigee < 500 THEN 50 + 20
                       ELSE IF perigee > 35000 THEN 50 - 20 ELSE 50
        risk == IF TypeLower(obj) = "debris" THEN by_altitude + 15
                ELSE by_altitude
    IN Max(0, Min(100, risk))

\* The body of the try block raises: obj is no dict (obj.get), a float()
\* of the three orbital elements raises, or the one of calculate_risk_level.
ConversionRaises(obj) ==
    \/ ~obj.is_dict
    \/ FloatRaises(obj.SEMIMAJOR_AXIS)
    \/ FloatRaises(obj.ECCENTRICITY)
    \/ FloatRaises(obj.INCLINATION)
    \/ FloatRaises(obj.PERIGEE)

\* The except clause raises: its log line calls obj.get on what is no dict.
HandlerRaises(obj) == ~obj.is_dict

\* The dict appended for a record: id, type and risk_level (the position,
\* the radius, the inclination and the metadata are left out).
Processed(obj) ==
    [id |-> IdOf(obj),
     type |-> IF IsDebris(obj) THEN "debris" ELSE "satellite",
     risk_level |-> calculate_risk_level(obj)]

\* The for loop of process_space_objects: one dict per record that converts,
\* in input order; a record that raises is skipped, unless the except clause
\* raises too, which ends the call.
RECURSIVE ProcessRecords(_)
ProcessRecords(data) ==
    IF data = <<>> THEN [raised |-> FALSE, list |-> <<>>]
    ELSE LET obj == Head(data)
         IN IF ConversionRaises(obj) /\ HandlerRaises(obj)
            THEN [raised |-> TRUE, list |-> <<>>]
            ELSE LET rest == ProcessRecords(Tail(data))
                 IN IF rest.raised \/ ConversionRaises(obj) THEN rest
                    ELSE [raised |-> FALSE,
                          list |-> <<Processed(obj)>> \o rest.list]

\* process_space_objects without its `if not data` test: the empty list
\* converts to the empty list.
process_space_objects_no_empty_test(data) ==
    IF data.kind \in {"error", "dict"} THEN None
    ELSE IF data.kind # "list" THEN None
    ELSE LET r == ProcessRecords(data.data)
         IN IF r.raised THEN Raised ELSE List(r.list)

\* process_space_objects(data), data a decoded body: None for a dict (error
\* response or not), for any other value that is no list, and for the empty
\* list; else the list of the converted records, if the loop does not raise.
\* (Started as `python app.py`, which imports math at line 411.)
process_space_objects(data) ==
    IF data.kind \in {"error", "dict"} THEN None
    ELSE IF data.kind # "list" THEN None
    ELSE IF data.data = <<>> THEN None
    ELSE LET r == ProcessRecords(data.data)
         IN IF r.raised THEN Raised ELSE List(r.list)

----------------------------------------------------------------------------
(* RateLimiter                                                             *)

\* Prune with the window's end kept: `<=` where the code has `<`.
PruneInclusive(reqlist) == SelectSeq(reqlist, LAMBDA age : age <= window_seconds)

\* [ts for ts in self.requests if (now - ts).total_seconds() < window_seconds]
Prune(reqlist) == SelectSeq(reqlist, LAMBDA age : age < window_seconds)

\* acquire admitting one request too many: `<=` where the code has `<`.
AcquireOffByOne(reqlist) ==
    LET kept == Prune(reqlist)
    IN IF Len(kept) <= requests_per_window
       THEN [requests |-> Append(kept, 0), ok |-> TRUE]
       ELSE [requests |-> kept, ok |-> FALSE]

\* acquire recording the timestamp before it decides.
AcquireAlwaysRecord(reqlist) ==
    LET kept == Prune(reqlist)
    IN [requests |-> Append(kept, 0), ok |-> Len(kept) < requests_per_window]

\* RateLimiter.acquire: the new list and the returned bool.
Acquire(reqlist) ==
    LET kept == Prune(reqlist)
    IN IF Len(kept) < requests_per_window
       THEN [requests |-> Append(kept, 0), ok |-> TRUE]
       ELSE [requests |-> kept, ok |-> FALSE]

\* wait_for_slot returning after its first poll, admitted or not.
AfterPollGivesUp(ok) == "response"

\* RateLimiter.wait_for_slot, one round of `while not await self.acquire()`:
\* return to the caller (which sends its request), or asyncio.sleep(1).
AfterPoll(ok) == IF ok THEN "response" ELSE "poll_sleep"

----------------------------------------------------------------------------
(* DataCache                                                               *)

\* set storing the data and leaving last_update as it was.
DataCacheSetStale(data) == [data |-> data, last_update |-> cache.last_update]

\* DataCache.set: data and last_update = now.
DataCacheSet(data) == [data |-> data, last_update |-> 0]

\* get without the ttl check.
DataCacheGetNoExpiry(c) ==
    IF ~Truthy(c.data) \/ c.last_update = NoStamp THEN None ELSE c.data

\* DataCache.get.
DataCacheGet(c) ==
    IF ~Truthy(c.data) \/ c.last_update = NoStamp THEN None
    ELSE IF c.last_update > ttl_seconds THEN None
    ELSE c.data

----------------------------------------------------------------------------
(* fetch_space_objects: the classification of one response                 *)

RECURSIVE Pow2(_)
Pow2(n) == IF n = 0 THEN 1 ELSE 2 * Pow2(n - 1)

\* One retry too many: attempt < max_retries.
AttemptsRemainOffByOne(a) == a < max_retries

\* Never retrying.
AttemptsRemainNever(a) == FALSE

\* attempt < max_retries - 1
AttemptsRemain(a) == a < max_retries - 1

\* A backoff that does not grow with the attempt.
BackoffFlat(rd, a) == Min(backoff_cap, rd)

\* backoff = min(300, retry_delay * (2 ** attempt))
Backoff(rd, a) == Min(backoff_cap, rd * Pow2(a))

\* A jitter of up to a fifth of the backoff.
JittersTooWide(b) == {0, b \div 5}

\* jitter = random.uniform(0, 0.1 * backoff): its two ends.
Jitters(b) == {0, b \div 10}

\* Taking every provider error for a rate-limit signal.
IsRateLimitAny(body) == TRUE

\* 'rate limit' in error_msg
IsRateLimit(body) == body.error = "rate limit"

Return(v) == [act |-> "return", value |-> v]
Retry == [act |-> "retry"]
RetryTransport == [act |-> "retry_transport"]
RateLimited == [act |-> "rate_limited"]

\* What one iteration of the retry loop does with the response.
Classify(resp, a) ==
    IF resp.outcome = "exception" THEN Return(List(<<>>))
    ELSE IF resp.status_code # 200
    THEN IF AttemptsRemain(a) THEN RetryTransport ELSE Return(List(<<>>))
    ELSE IF resp.outcome = "undecodable"
    THEN IF AttemptsRemain(a) THEN Retry ELSE Return(List(<<>>))
    ELSE IF resp.body.kind = "error"
    THEN IF IsRateLimit(resp.body)
         THEN IF AttemptsRemain(a) THEN RateLimited ELSE Return(List(<<>>))
         ELSE Return(List(<<>>))
    ELSE IF resp.body.kind = "list"
    THEN IF resp.body.data = <<>> THEN Return(List(<<>>))
         ELSE LET processed_data == process_space_objects(resp.body)
              IN IF processed_data = Raised THEN Return(List(<<>>))
                 ELSE IF Truthy(processed_data) THEN Return(processed_data)
                 ELSE IF AttemptsRemain(a) THEN Retry
                 ELSE Return(List(<<>>))
    ELSE Return(List(<<>>))

\* Sleeping 2 * retry_delay after a transport failure: the delay doubled
\* before the sleep instead of after it.
SleepTimesDoubledFirst(c, rd, a) ==
    IF c.act = "rate_limited"
    THEN { Backoff(rd, a) + j : j \in Jitters(Backoff(rd, a)) }
    ELSE IF c.act = "retry_transport" THEN {2 * rd}
    ELSE {rd}

\* The sleeps one classification may lead to.
SleepTimes(c, rd, a) ==
    IF c.act = "rate_limited"
    THEN { Backoff(rd, a) + j : j \in Jitters(Backoff(rd, a)) }
    ELSE {rd}

----------------------------------------------------------------------------
(* websocket_endpoint: the update loop of one session                      *)

\* Fetching whatever the cache returned.
NeedsFetchAlways(so) == TRUE

\* if not space_objects: fetch new data
NeedsFetch(so) == ~Truthy(so)

\* History only (the value of `seen`): the entry of c when it is valid in the
\* sense of the cache's contract, present and younger than ttl; else None.
ValidEntry(c) ==
    IF Truthy(c.data) /\ c.last_update # NoStamp /\ c.last_update < ttl_seconds
    THEN c.data ELSE None

UpdateMsg(so) == [type |-> "update", data |-> so.list, count |-> Len(so.list)]
StatusMsg == [type |-> "status"]
ErrorMsg == [type |-> "error"]

\* The websockets that connect to /ws of the visualizer, and the connections
\* DebrisServer handles.
Clients == {"w1", "w2", "w3"}
Connections == {"k1", "k2", "k3"}

\* register_client: batch_size = 10
batch_size == 10

\* One object of all_objects.  update_positions reads obj["phase"], which
\* only the objects of DebrisGenerator have.
Obj(i, p) == [id |-> i, has_phase |-> p]

\* initialize_objects: generate_debris(50) + generate_satellites(10).
SampleObjects == [i \in 1..60 |-> Obj(i, TRUE)]

\* n objects of the providers.
RealObjects(n) == [i \in 1..n |-> Obj(i, FALSE)]

\* What fetch_space_data returns: that many objects.
RealSizes == {0, 7}

\* all_objects when the first client connects: the sample objects, or what
\* update_with_real_data put in their place during initialize.
InitialSnapshots == {SampleObjects, RealObjects(7), RealObjects(20)}

\* The websockets that connect under SyncSpec.
Pair == {"w1", "w2"}

\* No client: the value of bcast.cur outside the loop of broadcast_message.
NoClient == "nobody"

\* No broadcast_message has been called yet.
NoBroadcast ==
    [pc |-> "idle", idx |-> 0, cur |-> NoClient, disconnected_clients |-> <<>>]

\* One entry of inbox: a batch_update message, or a pause after one.
BatchUpdate(objects) == [type |-> "batch_update", objects |-> objects]
Pause == [type |-> "pause", objects |-> <<>>]

\* OrbitVisualizer.__init__ and initialize: no client yet, every websocket
\* still to be accepted; objs: all_objects.
HubStart(objs) ==
    /\ all_objects = objs
    /\ connected_clients = <<>>
    /\ alive = [c \in Clients |-> TRUE]
    /\ wpc = [c \in Clients |-> "accept"]
    /\ updated_objects = [c \in Clients |-> <<>>]
    /\ index = [c \in Clients |-> 0]
    /\ inbox = [c \in Clients |-> <<>>]
    /\ sync_failed = {}
    /\ bcast = NoBroadcast
    /\ attempted = [c \in Clients |-> 0]
    /\ received = [c \in Clients |-> 0]
    /\ at_start = {}
    /\ stayed = {}
    /\ mutated = FALSE

\* DebrisServer.__init__, every connection at the initial send of its
\* handle_client.
ServerStart ==
    /\ clients = {}
    /\ handler = [k \in Connections |-> "send"]
    /\ open = [k \in Connections |-> TRUE]

\* The state of src/app.py after construction, no client connected yet; t:
\* the sessions whose rate-limit sleeps are kept.
AppStart(t) ==
    /\ requests = <<>>
    /\ cache = [data |-> None, last_update |-> NoStamp]
    /\ pc = [s \in Sessions |-> "closed"]
    /\ attempt = [s \in Sessions |-> 0]
    /\ retry_delay = [s \in Sessions |-> initial_retry_delay]
    /\ timer = [s \in Sessions |-> 0]
    /\ space_objects = [s \in Sessions |-> None]
    /\ retry_count = [s \in Sessions |-> 0]
    /\ retval = [s \in Sessions |-> None]
    /\ outbox = [s \in Sessions |-> NoMsg]
    /\ acquired = "none"
    /\ got = NoResp
    /\ admitted = <<>>
    /\ written = [data |-> None, last_update |-> NoStamp]
    /\ seen = [s \in Sessions |-> None]
    /\ slots = [s \in Sessions |-> 0]
    /\ reqs = [s \in Sessions |-> 0]
    /\ tracked = t
    /\ backoffs = [s \in Sessions |-> <<>>]
    /\ arg = NoArg
    /\ result = NoResult
    /\ credentials \in BOOLEAN

\* No update_cache call: the writer of a file that does not exist.
NoUpdate == 0

\* CacheManager.__init__ on an empty cache directory.
DiskStart ==
    /\ debris_cache_file = [exists |-> FALSE, writer |-> NoUpdate, whole |-> TRUE]
    /\ metadata_file = [exists |-> FALSE, writer |-> NoUpdate, last_update |-> 0,
                        whole |-> TRUE]
    /\ updates = 0
    /\ cached = [hit |-> FALSE, data |-> NoUpdate, judged_by |-> NoUpdate]

\* No item handed to _process_debris_data yet.
NoItem == [kind |-> "none"]

\* ESAClient before _process_debris_data is called.
EsaStart == item = NoItem /\ processed_item = NoItem

\* The libraries after construction.
LibStart == DiskStart /\ EsaStart

\* The state after construction: self.all_objects = [].
Start(t) == AppStart(t) /\ HubStart(<<>>) /\ ServerStart /\ LibStart

Init == Start({})

\* The start of one iteration of `while True`, up to its first suspension:
\* space_objects = space_objects_cache.get(); if not space_objects: fetch
\* (suspends in get_space_track_session), else send the update.
\* Leaves pc', space_objects', outbox', seen'.
StartCycle(s) ==
    LET so == DataCacheGet(cache)
    IN /\ space_objects' = [space_objects EXCEPT ![s] = so]
       /\ pc' = [pc EXCEPT ![s] =
                   IF NeedsFetch(so) THEN "login" ELSE "send_update"]
       /\ seen' = [seen EXCEPT ![s] = ValidEntry(cache)]
       /\ outbox' = [outbox EXCEPT ![s] = NoMsg]

\* One attempt of the retry loop, up to its first suspension:
\* await rate_limiter.wait_for_slot() polls acquire; admitted, the request
\* goes out (response = await client.get(...)); denied, asyncio.sleep(1).
\* Leaves requests', pc', timer', acquired', got', admitted', slots', reqs'.
StartAttempt(s) ==
    LET r == Acquire(requests)
        next == AfterPoll(r.ok)
    IN /\ requests' = r.requests
       /\ pc' = [pc EXCEPT ![s] = next]
       /\ timer' = [timer EXCEPT ![s] =
                      IF next = "poll_sleep" THEN poll_interval ELSE 0]
       /\ acquired' = IF r.ok THEN "admitted" ELSE "denied"
       /\ got' = NoResp
       /\ admitted' = IF r.ok THEN Append(admitted, 0) ELSE admitted
       /\ slots' = [slots EXCEPT ![s] = IF r.ok THEN slots[s] + 1 ELSE slots[s]]
       /\ reqs' = [reqs EXCEPT ![s] =
                     IF next = "response" THEN reqs[s] + 1 ELSE reqs[s]]

\* The caller storing whatever fetch_space_objects returned, before it looks
\* at it.
AfterFetchCachesAnything(s, v) ==
    /\ space_objects' = [space_objects EXCEPT ![s] = v]
    /\ retval' = [retval EXCEPT ![s] = None]
    /\ attempt' = [attempt EXCEPT ![s] = 0]
    /\ retry_delay' = [retry_delay EXCEPT ![s] = initial_retry_delay]
    /\ cache' = DataCacheSet(v)
    /\ written' = [data |-> v, last_update |-> 0]
    /\ IF Truthy(v)
       THEN /\ retry_count' = [retry_count EXCEPT ![s] = 0]
            /\ pc' = [pc EXCEPT ![s] = "send_update"]
       ELSE /\ retry_count' = [retry_count EXCEPT ![s] = retry_count[s] + 1]
            /\ pc' = [pc EXCEPT ![s] =
                        IF retry_count[s] + 1 >= ws_max_retries
                        THEN "send_error" ELSE "send_status"]

\* fetch_space_objects returned v: the caller's code up to the next send.
\* Leaves space_objects', retval', attempt', retry_delay', cache', written',
\* retry_count', pc'.
AfterFetch(s, v) ==
    /\ space_objects' = [space_objects EXCEPT ![s] = v]
    /\ retval' = [retval EXCEPT ![s] = None]
    /\ attempt' = [attempt EXCEPT ![s] = 0]
    /\ retry_delay' = [retry_delay EXCEPT ![s] = initial_retry_delay]
    /\ IF Truthy(v)
       THEN /\ cache' = DataCacheSet(v)
            /\ written' = [data |-> v, last_update |-> 0]
            /\ retry_count' = [retry_count EXCEPT ![s] = 0]
            /\ pc' = [pc EXCEPT ![s] = "send_update"]
       ELSE /\ UNCHANGED <<cache, written>>
            /\ retry_count' = [retry_count EXCEPT ![s] = retry_count[s] + 1]
            /\ pc' = [pc EXCEPT ![s] =
                        IF retry_count[s] + 1 >= ws_max_retries
                        THEN "send_error" ELSE "send_status"]

\* A client connects: await websocket.accept(); retry_count = 0; first cycle.
Connect(s) ==
    /\ pc[s] = "closed"
    /\ retry_count' = [retry_count EXCEPT ![s] = 0]
    /\ StartCycle(s)
    /\ acquired' = "none"
    /\ got' = NoResp
    /\ UNCHANGED <<requests, cache, attempt, retry_delay, timer, retval,
                   admitted, written, slots, reqs, tracked, backoffs, arg,
                   result>>
    /\ UNCHANGED <<credentials, fanout_vars, lib_vars>>

\* What get_space_track_session returns, TRUE for a client and FALSE for
\* None: None when a credential is missing, else either, the login at the
\* provider succeeding or not.
GetSpaceTrackSession == IF credentials THEN BOOLEAN ELSE {FALSE}

\* client = await get_space_track_session() is over.  No client: return [].
\* A client: max_retries = 3, retry_delay = 60, attempt 0 starts.
Login(s) ==
    /\ pc[s] = "login"
    /\ \E client \in GetSpaceTrackSession :
        IF client
        THEN /\ attempt' = [attempt EXCEPT ![s] = 0]
             /\ retry_delay' = [retry_delay EXCEPT ![s] = initial_retry_delay]
             /\ StartAttempt(s)
             /\ UNCHANGED <<cache, space_objects, retry_count, retval, written>>
        ELSE /\ AfterFetch(s, List(<<>>))
             /\ acquired' = "none"
             /\ got' = NoResp
             /\ UNCHANGED <<requests, timer, admitted, slots, reqs>>
    /\ backoffs' = [backoffs EXCEPT ![s] = <<>>]
    /\ UNCHANGED <<outbox, seen, tracked, arg, result>>
    /\ UNCHANGED <<credentials, fanout_vars, lib_vars>>

\* asyncio.sleep(1) of wait_for_slot is over: poll acquire again.
PollWake(s) ==
    /\ pc[s] = "poll_sleep"
    /\ timer[s] = 0
    /\ StartAttempt(s)
    /\ UNCHANGED <<cache, attempt, retry_delay, space_objects, retry_count,
                   retval, outbox, written, seen, tracked, backoffs, arg,
                   result>>
    /\ UNCHANGED <<credentials, fanout_vars, lib_vars>>

\* The response arrives and is classified: return (finally: await
\* client.aclose()), or sleep before the next attempt.
Response(s) ==
    /\ pc[s] = "response"
    /\ \E resp \in Responses :
        LET c == Classify(resp, attempt[s])
        IN /\ got' = [who |-> s, resp |-> resp]
           /\ IF c.act = "return"
              THEN /\ retval' = [retval EXCEPT ![s] = c.value]
                   /\ pc' = [pc EXCEPT ![s] = "closing"]
                   /\ UNCHANGED <<timer, backoffs>>
              ELSE /\ \E t \in SleepTimes(c, retry_delay[s], attempt[s]) :
                         /\ timer' = [timer EXCEPT ![s] = t]
                         /\ backoffs' = [backoffs EXCEPT ![s] =
                                           IF s \in tracked /\ c.act = "rate_limited"
                                           THEN Append(@, t)
                                           ELSE @]
                   /\ pc' = [pc EXCEPT ![s] =
                               IF c.act = "retry_transport"
                               THEN "backoff_transport" ELSE "backoff"]
                   /\ UNCHANGED retval
    /\ acquired' = "none"
    /\ UNCHANGED <<requests, cache, attempt, retry_delay, space_objects,
                   retry_count, outbox, admitted, written, seen, slots, reqs,
                   tracked, arg, result>>
    /\ UNCHANGED <<credentials, fanout_vars, lib_vars>>

\* The sleep before a retry is over and the same attempt starts again: a
\* `while` loop that forgets to count.
BackoffWakeSameAttempt(s) ==
    /\ pc[s] \in {"backoff", "backoff_transport"}
    /\ timer[s] = 0
    /\ attempt' = attempt
    /\ retry_delay' = [retry_delay EXCEPT ![s] =
                         IF pc[s] = "backoff_transport"
                         THEN retry_delay[s] * 2 ELSE retry_delay[s]]
    /\ StartAttempt(s)
    /\ UNCHANGED <<cache, space_objects, retry_count, retval, outbox, written,
                   seen, tracked, backoffs, arg,
                   result>>
    /\ UNCHANGED <<credentials, fanout_vars, lib_vars>>

\* The sleep before a retry is over: (retry_delay *= 2,) the next attempt.
BackoffWake(s) ==
    /\ pc[s] \in {"backoff", "backoff_transport"}
    /\ timer[s] = 0
    /\ attempt' = [attempt EXCEPT ![s] = attempt[s] + 1]
    /\ retry_delay' = [retry_delay EXCEPT ![s] =
                         IF pc[s] = "backoff_transport"
                         THEN retry_delay[s] * 2 ELSE retry_delay[s]]
    /\ StartAttempt(s)
    /\ UNCHANGED <<cache, space_objects, retry_count, retval, outbox, written,
                   seen, tracked, backoffs, arg,
                   result>>
    /\ UNCHANGED <<credentials, fanout_vars, lib_vars>>

\* await client.aclose() is over: fetch_space_objects returns.
FetchReturn(s) ==
    /\ pc[s] = "closing"
    /\ AfterFetch(s, retval[s])
    /\ acquired' = "none"
    /\ got' = NoResp
    /\ UNCHANGED <<requests, timer, outbox, admitted, seen, slots, reqs,
                   tracked, backoffs, arg,
                   result>>
    /\ UNCHANGED <<credentials, fanout_vars, lib_vars>>

\* await websocket.send_json(...): sent, then a sleep; or the client is gone,
\* the error message cannot be sent either, and the session ends.
Send(s) ==
    /\ pc[s] \in {"send_update", "send_status", "send_error"}
    /\ \E delivered \in BOOLEAN :
        IF delivered
        THEN /\ outbox' = [outbox EXCEPT ![s] =
                             CASE pc[s] = "send_update" -> UpdateMsg(space_objects[s])
                               [] pc[s] = "send_status" -> StatusMsg
                               [] pc[s] = "send_error" -> ErrorMsg]
             /\ pc' = [pc EXCEPT ![s] =
                         IF pc[s] = "send_error" THEN "pause_reset" ELSE "pause"]
             /\ timer' = [timer EXCEPT ![s] =
                            IF pc[s] = "send_error" THEN ws_retry_delay
                            ELSE cycle_pause]
             /\ UNCHANGED <<space_objects, retry_count>>
        ELSE /\ pc' = [pc EXCEPT ![s] = "closed"]
             /\ space_objects' = [space_objects EXCEPT ![s] = None]
             /\ retry_count' = [retry_count EXCEPT ![s] = 0]
             /\ outbox' = [outbox EXCEPT ![s] = NoMsg]
             /\ UNCHANGED timer
    /\ acquired' = "none"
    /\ got' = NoResp
    /\ seen' = [seen EXCEPT ![s] = None]
    /\ slots' = [slots EXCEPT ![s] = 0]
    /\ reqs' = [reqs EXCEPT ![s] = 0]
    /\ UNCHANGED <<requests, cache, attempt, retry_delay, retval, admitted,
                   written, tracked, backoffs, arg,
                   result>>
    /\ UNCHANGED <<credentials, fanout_vars, lib_vars>>

\* The loop going on after the 5 seconds that follow a status message only:
\* the sleep that follows an error message never ends.
PauseWakeAfterStatusOnly(s) ==
    /\ pc[s] = "pause"
    /\ timer[s] = 0
    /\ StartCycle(s)
    /\ acquired' = "none"
    /\ got' = NoResp
    /\ UNCHANGED <<requests, cache, attempt, retry_delay, timer, retval,
                   admitted, written, slots, reqs, tracked, backoffs, arg,
                   result, retry_count>>
    /\ UNCHANGED <<credentials, fanout_vars, lib_vars>>

\* The sleep that ends a cycle is over: (retry_count = 0,) the next cycle.
PauseWake(s) ==
    /\ pc[s] \in {"pause", "pause_reset"}
    /\ timer[s] = 0
    /\ retry_count' = [retry_count EXCEPT ![s] =
                         IF pc[s] = "pause_reset" THEN 0 ELSE retry_count[s]]
    /\ StartCycle(s)
    /\ acquired' = "none"
    /\ got' = NoResp
    /\ UNCHANGED <<requests, cache, attempt, retry_delay, timer, retval,
                   admitted, written, slots, reqs, tracked, backoffs, arg,
                   result>>
    /\ UNCHANGED <<credentials, fanout_vars, lib_vars>>

----------------------------------------------------------------------------
(* Time                                                                    *)

\* An age d seconds later; it stops growing one past `limit`.
Older(age, d, limit) ==
    IF age = NoStamp THEN NoStamp
    ELSE IF age + d > limit THEN limit + 1 ELSE age + d

\* A sleep d seconds later.
Remaining(t, d) == IF t > d THEN t - d ELSE 0

\* d seconds pass.
Tick ==
    /\ \E d \in TickSteps :
        /\ requests' = [i \in DOMAIN requests |->
                          Older(requests[i], d, window_seconds)]
        /\ cache' = [cache EXCEPT !.last_update = Older(@, d, ttl_seconds)]
        /\ written' = [written EXCEPT !.last_update = Older(@, d, ttl_seconds)]
        /\ timer' = [s \in Sessions |-> Remaining(timer[s], d)]
        /\ admitted' = SelectSeq([i \in DOMAIN admitted |-> admitted[i] + d],
                                 LAMBDA age : age < window_seconds)
    /\ acquired' = "none"
    /\ got' = NoResp
    /\ UNCHANGED <<pc, attempt, retry_delay, space_objects, retry_count,
                   retval, outbox, seen, slots, reqs, tracked, backoffs, arg,
                   result>>
    /\ UNCHANGED <<credentials, fanout_vars, lib_vars>>

----------------------------------------------------------------------------
(* Specifications                                                          *)

Step(s) ==
    \/ Connect(s)
    \/ Login(s)
    \/ PollWake(s)
    \/ Response(s)
    \/ BackoffWake(s)
    \/ FetchReturn(s)
    \/ Send(s)
    \/ PauseWake(s)

Next == Tick \/ \E s \in Sessions : Step(s)

\* Any number of sessions, any interleaving.
Spec == Init /\ [][Next]_vars

SoloNext == Tick \/ Step(Solo)

\* One session alone, time advancing, the session scheduled when it can run.
SoloSpec == Init /\ [][SoloNext]_vars /\ WF_vars(Tick) /\ WF_vars(Step(Solo))

\* Any number of sessions, time advancing, every session scheduled when it
\* can run.
FairSpec ==
    Spec /\ WF_vars(Tick) /\ \A s \in Sessions : WF_vars(Step(s))

\* One session alone, the rate-limit sleeps of its fetches kept.
TrackedSpec == Start({Solo}) /\ [][SoloNext]_vars

----------------------------------------------------------------------------
(* process_space_objects on its own                                        *)

\* The lengths of the raw lists handed to process_space_objects.
Lengths == 0..3

\* Raw records for the lists: two that convert, one without NORAD_CAT_ID
\* that converts, one whose SEMIMAJOR_AXIS is no number, and a null.
RawRecords ==
    { Rec(1, TRUE), Rec(2, TRUE), [Rec(3, TRUE) EXCEPT !.NORAD_CAT_ID = Missing],
      Rec(9, FALSE), NotADict }

\* The values of the keys of a record handed over on its own.
ElementValues == {Missing, Num(6800), Text}
PerigeeValues ==
    {Missing, Text} \cup
    { Num(n) : n \in {0, 400, 499, 500, 501, 34999, 35000, 35001, 40000} }
TypeStrings ==
    {Absent, "", "DEBRIS", "Debris", "debris", "UNKNOWN", "PAYLOAD",
     "ROCKET BODY"}

\* Every record of these values.
AllRecords ==
    { [is_dict |-> TRUE, NORAD_CAT_ID |-> id, SEMIMAJOR_AXIS |-> a,
       ECCENTRICITY |-> e, INCLINATION |-> i, PERIGEE |-> p,
       OBJECT_TYPE |-> t] :
        id \in {Missing, Num(7)}, a \in ElementValues, e \in {Missing, Text},
        i \in {Num(51), Text}, p \in PerigeeValues, t \in TypeStrings }

\* The values process_space_objects is called with: dicts with and without
\* an 'error' key, a value that is neither dict nor list, and lists.
TransformInputs ==
    { [kind |-> "error", error |-> "rate limit"],
      [kind |-> "error", error |-> "other"],
      [kind |-> "dict"],
      [kind |-> "scalar"] }
    \cup { [kind |-> "list", data |-> l] :
             l \in UNION { [1..n -> RawRecords] : n \in Lengths } }
    \cup { [kind |-> "list", data |-> <<r>>] : r \in AllRecords }

\* process_space_objects(data) is called.
CallProcess ==
    /\ arg = NoArg
    /\ arg' \in TransformInputs
    /\ UNCHANGED <<requests, cache, pc, attempt, retry_delay, timer,
                   space_objects, retry_count, retval, outbox, acquired, got,
                   admitted, written, seen, slots, reqs, tracked, backoffs,
                   result>>
    /\ UNCHANGED <<credentials, fanout_vars, lib_vars>>

\* process_space_objects returns.
ProcessReturns ==
    /\ arg # NoArg
    /\ ~result.done
    /\ result' = [done |-> TRUE, value |-> process_space_objects(arg)]
    /\ UNCHANGED <<requests, cache, pc, attempt, retry_delay, timer,
                   space_objects, retry_count, retval, outbox, acquired, got,
                   admitted, written, seen, slots, reqs, tracked, backoffs,
                   arg>>
    /\ UNCHANGED <<credentials, fanout_vars, lib_vars>>

TransformNext == CallProcess \/ ProcessReturns

\* One call of process_space_objects with any of the inputs.
TransformSpec == Init /\ [][TransformNext]_vars

----------------------------------------------------------------------------
(* OrbitVisualizer: register_client, broadcast_message and the endpoint    *)
(* loop of src/src/visualization/orbit_visualizer.py.                      *)
(*                                                                         *)
(* The endpoints and update_with_real_data are coroutines of one event     *)
(* loop: an action is the code one of them runs between two suspensions    *)
(* (websocket.accept, send_json, asyncio.sleep).  One update_with_real_data *)
(* runs at a time: _periodic_updates awaits it, 30 minutes apart.          *)
(*                                                                         *)
(* update_debris_data is left out: OrbitVisualizer has no debris_data      *)
(* attribute, so its line 176 raises AttributeError before the task of     *)
(* _broadcast_update is created, and _broadcast_update raises the same at  *)
(* line 186 before its loop.                                               *)

\* The elements of a list.
Range(list) == {list[i] : i \in DOMAIN list}

\* list.remove(x) when x is in the list: the first x goes.
RemoveFirst(list, x) ==
    LET at == CHOOSE i \in DOMAIN list :
                  /\ list[i] = x
                  /\ \A j \in 1..(i - 1) : list[j] # x
    IN [i \in 1..(Len(list) - 1) |-> IF i < at THEN list[i] ELSE list[i + 1]]

\* `if websocket in self.connected_clients: remove(websocket)`, and
\* `try: remove(client) except ValueError: pass`.
Discard(list, x) == IF x \in Range(list) THEN RemoveFirst(list, x) ELSE list

\* The second loop of broadcast_message left out.
DiscardNone(list, gone) == list

\* The list after the second loop of broadcast_message.
RECURSIVE DiscardAll(_, _)
DiscardAll(list, gone) ==
    IF gone = <<>> THEN list
    ELSE DiscardAll(Discard(list, Head(gone)), Tail(gone))

\* updated_objects[i:i + batch_size], with the overlap of one object.
BatchOverlapping(objects, i) ==
    SubSeq(objects, Max(i, 1), Min(i + batch_size, Len(objects)))

\* updated_objects[i:i + batch_size]
Batch(objects, i) == SubSeq(objects, i + 1, Min(i + batch_size, Len(objects)))

\* update_positions raises KeyError for an object without "phase".
UpdatePositionsRaises == \E i \in DOMAIN all_objects : ~all_objects[i].has_phase

\* Another task changes the registry: what the histories of a broadcast in
\* progress keep of it.
Mutation(gone) ==
    /\ mutated' = (mutated \/ bcast.pc = "sending")
    /\ stayed' = stayed \ gone

\* websocket.accept() returns or raises: register_client up to its first
\* send_json, or to the sleep of the endpoint loop.
Accepted(c) ==
    /\ wpc[c] = "accept"
    /\ IF alive[c]
       THEN /\ connected_clients' = Append(connected_clients, c)
            /\ updated_objects' = [updated_objects EXCEPT ![c] = all_objects]
            /\ index' = [index EXCEPT ![c] = 0]
            /\ wpc' = [wpc EXCEPT ![c] =
                         IF Len(all_objects) > 0 THEN "send" ELSE "loop"]
            /\ Mutation({})
       ELSE \* lines 151-154: the websocket is not in the list
            /\ wpc' = [wpc EXCEPT ![c] = "loop"]
            /\ UNCHANGED <<connected_clients, updated_objects, index,
                           mutated, stayed>>
    /\ UNCHANGED <<all_objects, alive, inbox, sync_failed, bcast, attempted,
                   received, at_start>>
    /\ UNCHANGED <<app_vars, server_vars, lib_vars>>

\* The list the batches of websocket c would be cut from if register_client
\* read self.all_objects anew for every batch.
SnapshotLive(c) == all_objects

\* The list the batches of websocket c are cut from: the local variable
\* updated_objects of register_client, bound once before the loop.
Snapshot(c) == updated_objects[c]

\* send_json of a batch returns or raises.  On an error the loop breaks and
\* register_client returns: the endpoint sleeps in its loop.
BatchSent(c) ==
    /\ wpc[c] = "send"
    /\ IF alive[c]
       THEN /\ inbox' = [inbox EXCEPT ![c] =
                 Append(@, BatchUpdate(Batch(Snapshot(c), index[c])))]
            /\ wpc' = [wpc EXCEPT ![c] = "sleep"]
            /\ UNCHANGED sync_failed
       ELSE /\ sync_failed' = sync_failed \cup {c}
            /\ wpc' = [wpc EXCEPT ![c] = "loop"]
            /\ UNCHANGED inbox
    /\ UNCHANGED <<all_objects, connected_clients, alive, updated_objects,
                   index, bcast, attempted, received, at_start, stayed,
                   mutated>>
    /\ UNCHANGED <<app_vars, server_vars, lib_vars>>

\* asyncio.sleep(0.1) returns: the next batch, or the end of register_client.
BatchPaused(c) ==
    /\ wpc[c] = "sleep"
    /\ inbox' = [inbox EXCEPT ![c] = Append(@, Pause)]
    /\ index' = [index EXCEPT ![c] = index[c] + batch_size]
    /\ wpc' = [wpc EXCEPT ![c] =
                 IF index[c] + batch_size < Len(Snapshot(c))
                 THEN "send" ELSE "loop"]
    /\ UNCHANGED <<all_objects, connected_clients, alive, updated_objects,
                   sync_failed, bcast, attempted, received, at_start, stayed,
                   mutated>>
    /\ UNCHANGED <<app_vars, server_vars, lib_vars>>

\* asyncio.sleep(1) of the endpoint loop returns.  update_positions raises
\* and the endpoint removes its websocket (lines 228-231), or the positions
\* are sent, an error of a send being logged (line 227).
LoopWake(c) ==
    /\ wpc[c] = "loop"
    /\ IF UpdatePositionsRaises
       THEN /\ connected_clients' = Discard(connected_clients, c)
            /\ wpc' = [wpc EXCEPT ![c] = "closed"]
            /\ IF c \in Range(connected_clients)
               THEN Mutation({c})
               ELSE UNCHANGED <<mutated, stayed>>
       ELSE UNCHANGED <<connected_clients, wpc, mutated, stayed>>
    /\ UNCHANGED <<all_objects, alive, updated_objects, index, inbox,
                   sync_failed, bcast, attempted, received, at_start>>
    /\ UNCHANGED <<app_vars, server_vars, lib_vars>>

\* The peer of websocket c closes it: every later accept or send raises.
PeerCloses(c) ==
    /\ alive[c]
    /\ alive' = [alive EXCEPT ![c] = FALSE]
    /\ UNCHANGED <<all_objects, connected_clients, wpc, updated_objects,
                   index, inbox, sync_failed, bcast, attempted, received,
                   at_start, stayed, mutated>>
    /\ UNCHANGED <<app_vars, server_vars, lib_vars>>

\* The `for client in self.connected_clients` of broadcast_message asks its
\* list iterator for the next client: the client at the iterator's position
\* in the list as it is now, or the end of the loop and the removal of
\* disconnected_clients.  b: bcast with the outcome of the send before.
NextClient(b) ==
    IF b.idx < Len(connected_clients)
    THEN /\ bcast' = [b EXCEPT !.idx = b.idx + 1,
                               !.cur = connected_clients[b.idx + 1]]
         /\ UNCHANGED connected_clients
    ELSE /\ bcast' = [b EXCEPT !.pc = "done", !.cur = NoClient]
         /\ connected_clients' =
                DiscardAll(connected_clients, b.disconnected_clients)

\* all_objects after an update that merged the fetched objects into the
\* objects it had.
AllObjectsMerged(old, real_objects) ==
    IF real_objects # <<>> THEN old \o real_objects ELSE old

\* all_objects after `if real_objects: self.all_objects = real_objects`.
AllObjectsAfter(old, real_objects) ==
    IF real_objects # <<>> THEN real_objects ELSE old

\* update_with_real_data: fetch_space_data returned n objects.  None: the
\* objects stay.  Some: they replace all_objects and broadcast_message runs
\* up to its first send_json.
UpdateWithRealData ==
    /\ bcast.pc # "sending"
    /\ \E n \in RealSizes :
        IF n = 0
        THEN UNCHANGED <<all_objects, connected_clients, bcast, attempted,
                         received, at_start, stayed, mutated>>
        ELSE /\ all_objects' = AllObjectsAfter(all_objects, RealObjects(n))
             /\ attempted' = [c \in Clients |-> 0]
             /\ received' = [c \in Clients |-> 0]
             /\ at_start' = Range(connected_clients)
             /\ stayed' = Range(connected_clients)
             /\ mutated' = FALSE
             /\ NextClient([NoBroadcast EXCEPT !.pc = "sending"])
    /\ UNCHANGED <<alive, wpc, updated_objects, index, inbox, sync_failed>>
    /\ UNCHANGED <<app_vars, server_vars, lib_vars>>

\* send_json of broadcast_message returns or raises, and the loop goes on.
BroadcastSent ==
    /\ bcast.pc = "sending"
    /\ attempted' = [attempted EXCEPT ![bcast.cur] = @ + 1]
    /\ IF alive[bcast.cur]
       THEN /\ received' = [received EXCEPT ![bcast.cur] = @ + 1]
            /\ NextClient(bcast)
       ELSE /\ UNCHANGED received
            /\ NextClient([bcast EXCEPT !.disconnected_clients =
                                            Append(@, bcast.cur)])
    /\ UNCHANGED <<all_objects, alive, wpc, updated_objects, index, inbox,
                   sync_failed, at_start, stayed, mutated>>
    /\ UNCHANGED <<app_vars, server_vars, lib_vars>>

\* One step of the visualizer, the websockets cs connecting.
HubStep(cs) ==
    \/ UpdateWithRealData
    \/ BroadcastSent
    \/ \E c \in cs :
        \/ Accepted(c)
        \/ BatchSent(c)
        \/ BatchPaused(c)
        \/ LoopWake(c)
        \/ PeerCloses(c)

HubNext == HubStep(Clients)

\* The visualizer after initialize put the objects of the providers in the
\* place of its sample objects.
HubInit ==
    \E n \in RealSizes \ {0} :
        AppStart({}) /\ HubStart(RealObjects(n)) /\ ServerStart /\ LibStart

\* Three websockets, updates and peers closing, any interleaving.
HubSpec == HubInit /\ [][HubNext]_vars

SyncNext == HubStep(Pair)

\* The visualizer after initialize, with its sample objects or with the
\* objects of the providers.
SyncInit ==
    \E objs \in InitialSnapshots :
        AppStart({}) /\ HubStart(objs) /\ ServerStart /\ LibStart

\* Two websockets and snapshots of one to six batches, any interleaving.
SyncSpec == SyncInit /\ [][SyncNext]_vars

\* The same, every endpoint and the broadcast scheduled when they can run.
\* Neither a peer closing nor fetch_space_data returning objects is owed.
FairSyncSpec ==
    /\ SyncSpec
    /\ WF_vars(BroadcastSent)
    /\ \A c \in Pair :
          /\ WF_vars(Accepted(c))
          /\ WF_vars(BatchSent(c))
          /\ WF_vars(BatchPaused(c))
          /\ WF_vars(LoopWake(c))

----------------------------------------------------------------------------
(* DebrisServer.handle_client of src/src/server.py                         *)

\* websocket.send(message) of the initial data returns or raises.  Sent:
\* the connection joins self.clients and the handler waits for its close.
\* Raised (ConnectionClosed or another exception, both caught): the finally
\* clause runs self.clients.remove(websocket) on a set that does not hold
\* the websocket, and KeyError leaves handle_client.
InitialDataSent(k) ==
    /\ handler[k] = "send"
    /\ IF open[k]
       THEN /\ clients' = clients \cup {k}
            /\ handler' = [handler EXCEPT ![k] = "wait_closed"]
       ELSE /\ handler' = [handler EXCEPT ![k] =
                             IF k \in clients THEN "returned" ELSE "KeyError"]
            /\ clients' = clients \ {k}
    /\ UNCHANGED open
    /\ UNCHANGED <<app_vars, hub_vars, lib_vars>>

\* websocket.wait_closed() returns: the finally clause removes the client.
WaitClosed(k) ==
    /\ handler[k] = "wait_closed"
    /\ ~open[k]
    /\ handler' = [handler EXCEPT ![k] =
                     IF k \in clients THEN "returned" ELSE "KeyError"]
    /\ clients' = clients \ {k}
    /\ UNCHANGED open
    /\ UNCHANGED <<app_vars, hub_vars, lib_vars>>

\* The peer of connection k closes it.
Hangup(k) ==
    /\ open[k]
    /\ open' = [open EXCEPT ![k] = FALSE]
    /\ UNCHANGED <<clients, handler>>
    /\ UNCHANGED <<app_vars, hub_vars, lib_vars>>

ServerNext ==
    \E k \in Connections : InitialDataSent(k) \/ WaitClosed(k) \/ Hangup(k)

\* Three connections, each closed by its peer at any moment.
ServerSpec == Init /\ [][ServerNext]_vars

----------------------------------------------------------------------------
(* RateLimiter: C1 - C4                                                    *)

\* The recorded timestamps younger than the window.
InWindow(reqlist) ==
    Cardinality({i \in DOMAIN reqlist : reqlist[i] < window_seconds})

\* The recorded timestamps younger than the window, in order.
Fresh(reqlist) ==
    LET F[i \in 0..Len(reqlist)] ==
            IF i = 0 THEN <<>>
            ELSE IF reqlist[i] < window_seconds
                 THEN Append(F[i - 1], reqlist[i]) ELSE F[i - 1]
    IN F[Len(reqlist)]

\* C1: whatever the sessions did, at most requests_per_window recorded
\* timestamps are younger than window_seconds, and at most that many acquires
\* were admitted during the last window_seconds.
C1_QuotaPerWindow ==
    /\ InWindow(requests) <= requests_per_window
    /\ Len(admitted) <= requests_per_window

\* One session holds the window's slot while another one was denied.
C1_Witness ==
    \E s, t \in Sessions :
        /\ pc[s] = "response"
        /\ pc[t] = "poll_sleep"
        /\ InWindow(requests) = requests_per_window

\* C2: acquire returns true exactly when fewer than requests_per_window
\* recorded timestamps are younger than the window (equivalently: fewer than
\* that many acquires were admitted during the last window_seconds), and then
\* the list grows by one timestamp, which is now.
C2_AcquireAdmitsIff ==
    [][acquired' # "none" =>
          /\ (acquired' = "admitted") <=> (InWindow(requests) < requests_per_window)
          /\ (acquired' = "admitted") <=> (Len(admitted) < requests_per_window)
          /\ acquired' = "admitted" =>
                /\ Len(requests') = InWindow(requests) + 1
                /\ requests'[Len(requests')] = 0
                /\ InWindow(requests') = InWindow(requests) + 1]_vars

\* An acquire of a session's second attempt was admitted after the window of
\* its first one had passed: the list holds the new timestamp only.
C2_Witness ==
    /\ acquired = "admitted"
    /\ requests = <<0>>
    /\ \E s \in Sessions : slots[s] = 2

\* C3 as stated: a denied acquire leaves the list as it was, and an admitted
\* one only appends now to it.
C3_OnlyAppends ==
    [][acquired' # "none" =>
          \/ acquired' = "denied" /\ requests' = requests
          \/ acquired' = "admitted" /\ requests' = Append(requests, 0)]_vars

\* C3 amended: a denied acquire leaves the list as it was; an admitted one
\* drops the timestamps that left the window and appends now; acquire changes
\* nothing else of the limiter or the cache.
C3_DeniedUnchanged ==
    [][acquired' # "none" =>
          /\ acquired' = "denied" => requests' = requests
          /\ acquired' = "admitted" => requests' = Append(Fresh(requests), 0)
          /\ cache' = cache]_vars

\* An acquire was denied while the list held a timestamp.
C3_Witness ==
    /\ acquired = "denied"
    /\ requests # <<>>

\* The states in which session s is inside wait_for_slot, asleep between polls.
Waiting(s) == pc[s] = "poll_sleep"

\* The states from which a step of session s calls wait_for_slot or polls.
MayPoll(s) == pc[s] \in {"login", "poll_sleep", "backoff", "backoff_transport"}

\* C4: alone on the limiter and with time advancing, a session waiting in
\* wait_for_slot eventually gets out of it; wait_for_slot returns (and the
\* request goes out) only in a step whose acquire was admitted, and a waiting
\* session leaves the wait in no other way.
C4_WaitForSlotReturns ==
    /\ Waiting(Solo) ~> pc[Solo] = "response"
    /\ [][\A s \in Sessions :
            /\ (MayPoll(s) /\ pc'[s] = "response") =>
                  (acquired' = "admitted" /\ slots'[s] = slots[s] + 1)
            /\ Waiting(s) => pc'[s] \in {"poll_sleep", "response"}]_vars

\* The waiting session slept, polled again and was denied again.
C4_Witness ==
    /\ Waiting(Solo)
    /\ acquired = "denied"
    /\ requests # <<>>
    /\ requests[1] > 0

----------------------------------------------------------------------------
(* DataCache: C5 - C7                                                      *)

\* A step in which session s starts a cycle, that is, calls DataCache.get.
CycleStarts(s) ==
    /\ pc[s] \in {"closed", "pause", "pause_reset"}
    /\ pc'[s] \in {"login", "send_update"}

\* C5: get returns the snapshot when an entry is present and younger than
\* ttl, and nothing otherwise: when nothing was set, and at every age >= ttl.
C5_GetOnlyYoungerThanTtl ==
    [][\A s \in Sessions :
          CycleStarts(s) => space_objects'[s] = ValidEntry(cache)]_vars

\* C6: a get after set(X), with no set in between, returns X while the age of
\* the entry is below ttl and nothing once its age is above ttl.
C6_SetThenGet ==
    [][\A s \in Sessions :
          (CycleStarts(s) /\ written.last_update # NoStamp) =>
              /\ written.last_update < ttl_seconds =>
                    space_objects'[s] = written.data
              /\ written.last_update > ttl_seconds =>
                    space_objects'[s] = None]_vars

\* A get found the entry older than ttl and the session went to fetch.
C6_Witness ==
    \E s \in Sessions :
        /\ pc[s] = "login"
        /\ Truthy(written.data)
        /\ written.last_update > ttl_seconds
        /\ space_objects[s] = None

\* C7: the entry is always the data and the timestamp of one set call, the
\* last one, whose timestamp was the time of the call; a get returns nothing
\* or the whole snapshot of the last set call.
C7_EntryOfOneSet ==
    /\ [](cache = written)
    /\ [][\A s \in Sessions :
            CycleStarts(s) => space_objects'[s] \in {None, written.data}]_vars

\* A session holds the old snapshot, read before another session's set.
C7_Witness ==
    \E s \in Sessions :
        /\ pc[s] = "send_update"
        /\ Truthy(seen[s])
        /\ Truthy(cache.data)
        /\ cache.data # space_objects[s]

----------------------------------------------------------------------------
(* The fetch cycle: C8 - C10                                               *)

\* C8: a cycle that found a valid entry goes straight to sending that entry:
\* it has acquired no slot and issued no upstream request.
C8_FastPath ==
    \A s \in Sessions :
        Truthy(seen[s]) =>
            /\ pc[s] = "send_update"
            /\ space_objects[s] = seen[s]
            /\ slots[s] = 0
            /\ reqs[s] = 0

\* A cycle found a valid entry.
C8_Witness ==
    \E s \in Sessions : Truthy(seen[s]) /\ pc[s] = "send_update"

\* C9: a cycle issues at most 3 upstream requests, each of them in the step
\* in which wait_for_slot got the slot of that attempt.
C9_AtMostThreeRequests ==
    \A s \in Sessions :
        /\ reqs[s] <= 3
        /\ reqs[s] = slots[s]
        /\ pc[s] = "response" => reqs[s] = attempt[s] + 1

\* A cycle issued its third request.
C9_Witness ==
    \E s \in Sessions : reqs[s] = 3 /\ pc[s] = "response"

\* Session s is inside fetch_space_objects.
InFetch(s) ==
    pc[s] \in {"login", "poll_sleep", "response", "backoff",
               "backoff_transport", "closing"}

\* C10: at most one session is inside a fetch cycle at any time.
C10_OneFetchInFlight ==
    Cardinality({s \in Sessions : InFetch(s)}) <= 1

----------------------------------------------------------------------------
(* The retry loop of fetch_space_objects: C11 - C14                        *)

\* A record of which every numeric key that is there holds a number.
Convertible(r) ==
    /\ r.is_dict
    /\ \A v \in {r.SEMIMAJOR_AXIS, r.ECCENTRICITY, r.INCLINATION, r.PERIGEE} :
          v.kind \in {"missing", "num"}

\* The failure a response stands for, by its payload alone.
KindOf(resp) ==
    IF resp.outcome = "exception" THEN "exception"
    ELSE IF resp.status_code # 200 THEN "transport"
    ELSE IF resp.outcome = "undecodable" THEN "undecodable"
    ELSE IF resp.body.kind = "error"
    THEN IF resp.body.error = "rate limit" THEN "rate_limit" ELSE "provider"
    ELSE IF resp.body.kind # "list" THEN "not_list"
    ELSE IF resp.body.data = <<>> THEN "empty_list"
    ELSE IF \E i \in DOMAIN resp.body.data : Convertible(resp.body.data[i])
    THEN "snapshot" ELSE "no_objects"

\* A step in which session s receives a response of kind k.
Receives(s, k) == got'.who = s /\ KindOf(got'.resp) = k

\* A step in which session s ends its fetch with no data and without a sleep.
EndsWithNoData(s) ==
    /\ pc'[s] = "closing"
    /\ retval'[s] = List(<<>>)
    /\ timer'[s] = timer[s]

\* A step in which the sleep of session s before a retry is over.
Wakes(s) == pc[s] \in {"backoff", "backoff_transport"} /\ pc'[s] # pc[s]

\* C11: a non-200 status with attempts remaining puts the cycle to sleep for
\* retry_delay, which is 60 on entry and doubles when the sleep after a
\* transport failure is over (60, then 120), and the next attempt follows the
\* sleep; a non-200 status on the last attempt ends the cycle with no data
\* and without a sleep.
C11_TransportRetry ==
    [][\A s \in Sessions :
          /\ Receives(s, "transport") =>
                IF attempt[s] < 2
                THEN /\ pc'[s] = "backoff_transport"
                     /\ timer'[s] = retry_delay[s]
                     /\ retry_delay[s] \in {60, 120}
                     /\ attempt[s] = 0 => retry_delay[s] = 60
                     /\ reqs[s] = attempt[s] + 1
                ELSE EndsWithNoData(s)
          /\ (pc[s] = "login" /\ pc'[s] \in {"poll_sleep", "response"}) =>
                retry_delay'[s] = 60
          /\ Wakes(s) =>
                /\ timer[s] = 0
                /\ attempt'[s] = attempt[s] + 1
                /\ pc'[s] \in {"poll_sleep", "response"}
                /\ retry_delay'[s] = IF pc[s] = "backoff_transport"
                                     THEN 2 * retry_delay[s]
                                     ELSE retry_delay[s]]_vars

\* A second transport failure in one cycle: the session sleeps 120 seconds.
C11_Witness ==
    \E s \in Sessions :
        /\ got.who = s
        /\ KindOf(got.resp) = "transport"
        /\ pc[s] = "backoff_transport"
        /\ attempt[s] = 1
        /\ timer[s] = 120

\* C12: a rate-limit payload with attempts remaining puts the cycle to sleep
\* for b + jitter, b = min(300, retry_delay * 2^attempt) and 0 <= jitter <=
\* b / 10, which is at most 330 seconds; a rate-limit payload on the last
\* attempt ends the cycle with no data.
C12_RateLimitBackoff ==
    [][\A s \in Sessions :
          Receives(s, "rate_limit") =>
              IF attempt[s] < 2
              THEN LET scaled == retry_delay[s] * (2 ^ attempt[s])
                       b == IF scaled < 300 THEN scaled ELSE 300
                       jitter == timer'[s] - b
                   IN /\ pc'[s] = "backoff"
                      /\ 0 <= jitter
                      /\ 10 * jitter <= b
                      /\ timer'[s] <= 330
              ELSE EndsWithNoData(s)]_vars

\* A rate-limit payload on the second attempt, after a transport failure on
\* the first: b = 120 * 2 and the jitter is at its upper end.
C12_Witness ==
    \E s \in Sessions :
        /\ got.who = s
        /\ KindOf(got.resp) = "rate_limit"
        /\ pc[s] = "backoff"
        /\ attempt[s] = 1
        /\ retry_delay[s] = 120
        /\ timer[s] = 264

\* A step in which fetch_space_objects of session s returns to its caller.
Returns(s) == pc[s] = "closing" /\ pc'[s] # "closing"

\* C13: a provider error that is no rate-limit signal ends the cycle in the
\* step that receives it, with no data, whatever the attempt: no sleep is
\* started, and no slot is taken and no request issued from there to the end
\* of the cycle, which goes on to report that it has no data.
C13_ProviderErrorEndsCycle ==
    [][\A s \in Sessions :
          /\ Receives(s, "provider") =>
                /\ EndsWithNoData(s)
                /\ reqs'[s] = reqs[s]
                /\ slots'[s] = slots[s]
          /\ Returns(s) =>
                /\ reqs'[s] = reqs[s]
                /\ slots'[s] = slots[s]
                /\ requests' = requests
                /\ retval[s] = List(<<>>) =>
                      pc'[s] \in {"send_status", "send_error"}]_vars

\* A provider error on the first attempt: the cycle is over after one request.
C13_Witness ==
    \E s \in Sessions :
        /\ got.who = s
        /\ KindOf(got.resp) = "provider"
        /\ attempt[s] = 0
        /\ reqs[s] = 1
        /\ pc[s] = "closing"

\* A step in which session s goes to sleep for retry_delay before a retry
\* when attempts remain, and ends its fetch with no data when none remain.
RetriesOrGivesUp(s) ==
    IF attempt[s] < 2
    THEN /\ pc'[s] = "backoff"
         /\ timer'[s] = retry_delay[s]
         /\ retval'[s] = retval[s]
    ELSE EndsWithNoData(s)

----------------------------------------------------------------------------
(* The update loop and the cache: C15 - C18                                *)

\* The objects of a raw list: one per record that converts, in order.
Converted(raw) ==
    LET kept == SelectSeq(raw, Convertible)
    IN [i \in 1..Len(kept) |-> Processed(kept[i])]

\* A step in which a cycle of session s ends without data.
EndsCycleWithoutData(s) ==
    /\ pc[s] \in {"login", "closing"}
    /\ pc'[s] \in {"send_status", "send_error"}

\* C15: the cache entry changes only when a fetch returns a non-empty list to
\* the update loop, which then stores that list with the age 0, or by
\* growing older; the list a fetch returns non-empty is the transform of the
\* array it has just received; and a cycle that ends without data leaves the
\* entry, data and age, as it was.
C15_OnlySuccessWrites ==
    [][/\ cache' # cache =>
            \/ /\ cache'.data = cache.data
               /\ cache'.last_update > cache.last_update
               /\ pc' = pc
            \/ \E s \in Sessions :
                  /\ Returns(s)
                  /\ Truthy(retval[s])
                  /\ cache' = [data |-> retval[s], last_update |-> 0]
                  /\ space_objects'[s] = retval[s]
                  /\ pc'[s] = "send_update"
       /\ \A s \in Sessions :
            /\ (Truthy(retval'[s]) /\ retval'[s] # retval[s]) =>
                  /\ Receives(s, "snapshot")
                  /\ retval'[s] = List(Converted(got'.resp.body.data))
            /\ EndsCycleWithoutData(s) => cache' = cache]_vars

\* A cycle ended without data, for the third time in a row, while the cache
\* held a snapshot.
C15_Witness ==
    \E s \in Sessions :
        /\ pc[s] = "send_error"
        /\ Truthy(cache.data)
        /\ cache.last_update # NoStamp

\* The snapshots a fetch can succeed with.
Snapshots == { List(Converted(l)) : l \in RawLists } \ { List(<<>>) }

\* The cycle of session s has just succeeded with the snapshot v.
Succeeded(s, v) ==
    /\ pc[s] = "send_update"
    /\ ~Truthy(seen[s])
    /\ space_objects[s] = v
    /\ cache = [data |-> v, last_update |-> 0]

\* C16: once a cycle has succeeded with a snapshot v, every session that is
\* connected then is eventually sent an update message with the data v and
\* the count Len(v), unless its connection is lost first.
C16_EveryClientGetsSnapshot ==
    \A v \in Snapshots : \A t \in Sessions :
        ((\E s \in Sessions : Succeeded(s, v)) /\ pc[t] # "closed")
            ~> (outbox[t] = UpdateMsg(v) \/ pc[t] = "closed")

\* C17: an exception raised during an attempt that is not the last one is
\* followed by a retry: the fetch does not return in that step.
C17_ExceptionRetries ==
    [][\A s \in Sessions :
          (Receives(s, "exception") /\ attempt[s] < 2) =>
              pc'[s] \in {"backoff", "backoff_transport"}]_vars

\* The responses that are upstream failures.
FailureKinds ==
    {"exception", "transport", "undecodable", "rate_limit", "provider",
     "not_list", "empty_list", "no_objects"}

\* C18: an upstream failure either puts the fetch to sleep before a retry or
\* makes it return the empty list, and a fetch that returns without data
\* makes the loop send a status or an error message; a session ends only
\* when a message cannot be sent; and, scheduled when it can run and with
\* time advancing, a session that has such a message to send goes on to
\* start another cycle, unless its connection is lost.
C18_LoopSurvivesFailures ==
    /\ [][\A s \in Sessions :
            /\ (\E k \in FailureKinds : Receives(s, k)) =>
                  \/ pc'[s] \in {"backoff", "backoff_transport"}
                  \/ pc'[s] = "closing" /\ retval'[s] = List(<<>>)
            /\ (Returns(s) /\ ~Truthy(retval[s])) =>
                  /\ pc'[s] \in {"send_status", "send_error"}
                  /\ space_objects'[s] = List(<<>>)
            /\ (pc[s] # "closed" /\ pc'[s] = "closed") =>
                  pc[s] \in {"send_update", "send_status", "send_error"}]_vars
    /\ pc[Solo] \in {"send_status", "send_error"}
          ~> pc[Solo] \in {"closed", "login", "send_update"}

\* Three cycles in a row failed, the error message was sent and the 60
\* seconds after it are over: the session is about to start its next cycle.
C18_Witness ==
    /\ pc[Solo] = "pause_reset"
    /\ outbox[Solo] = ErrorMsg
    /\ retry_count[Solo] = 3
    /\ timer[Solo] = 0

----------------------------------------------------------------------------
(* One fetch, its rate-limit sleeps kept: C19                              *)

\* The first two attempts of Solo's fetch received a rate-limit payload.
RateLimitedTwice == Len(backoffs[Solo]) = 2

\* C19: when the first two attempts of a fetch received a rate-limit payload,
\* the sleep before the third attempt was not shorter than the sleep before
\* the second; and when the third attempt then receives an array with a
\* record that converts, it is the third request of the cycle, the fetch
\* returns the transformed array without another request, and the loop
\* stores it and goes on to send it.
C19_RateLimitTwiceThenSuccess ==
    /\ [](RateLimitedTwice => backoffs[Solo][2] >= backoffs[Solo][1])
    /\ [][(RateLimitedTwice /\ Receives(Solo, "snapshot")) =>
             /\ attempt[Solo] = 2
             /\ reqs[Solo] = 3
             /\ reqs'[Solo] = 3
             /\ pc'[Solo] = "closing"
             /\ retval'[Solo] = List(Converted(got'.resp.body.data))
             /\ Truthy(retval'[Solo])]_vars
    /\ [][(RateLimitedTwice /\ Returns(Solo) /\ Truthy(retval[Solo])) =>
             /\ reqs'[Solo] = 3
             /\ pc'[Solo] = "send_update"
             /\ space_objects'[Solo] = retval[Solo]
             /\ cache'.data = retval[Solo]]_vars

\* Two rate-limit payloads, the first sleep with the longest jitter and the
\* second with none, then an array: the fetch is returning its snapshot.
C19_Witness ==
    /\ backoffs[Solo] = <<66, 120>>
    /\ pc[Solo] = "closing"
    /\ Truthy(retval[Solo])
    /\ reqs[Solo] = 3

----------------------------------------------------------------------------
(* process_space_objects: C20                                              *)

\* C20: process_space_objects returns None, not a list, when it is called
\* with the empty list, and when it is called with a value that is no list:
\* a dict, with or without an 'error' key, or any other value.
C20_RejectsEmptyAndNonLists ==
    result.done =>
        /\ (arg.kind = "list" /\ arg.data = <<>>) => result.value = None
        /\ arg.kind # "list" => result.value = None
        /\ result.value \notin {None, Raised} =>
              /\ arg.kind = "list"
              /\ arg.data # <<>>
              /\ result.value = List(Converted(arg.data))

\* process_space_objects was called with the empty list and has returned.
C20_Witness ==
    /\ result.done
    /\ arg = [kind |-> "list", data |-> <<>>]
    /\ result.value = None

----------------------------------------------------------------------------
(* process_space_objects and calculate_risk_level: C21 - C25               *)

\* process_space_objects was called with a non-empty list and is over.
ListDone == result.done /\ arg.kind = "list" /\ arg.data # <<>>

\* process_space_objects was called with the one record r and is over.
OneDone(r) == result.done /\ arg = [kind |-> "list", data |-> <<r>>]

\* C21: called with a non-empty list, process_space_objects returns the
\* list of the objects of the records that convert, in input order, whatever
\* the other elements of the list are.
C21_OnePerConvertedRecord ==
    ListDone => result.value = List(Converted(arg.data))

\* A record whose four numeric keys are all there and hold numbers.
Complete(r) ==
    /\ r.is_dict
    /\ \A v \in {r.SEMIMAJOR_AXIS, r.ECCENTRICITY, r.INCLINATION, r.PERIGEE} :
          v.kind = "num"

\* C22: a list that process_space_objects returns holds no more objects than
\* the input holds records with all four numeric keys present and numeric:
\* a record with one of them absent or not a number adds nothing.
C22_IncompleteRecordSkipped ==
    (ListDone /\ result.value # Raised) =>
        Len(result.value.list) <=
            Cardinality({i \in DOMAIN arg.data : Complete(arg.data[i])})

\* The spellings of debris among the type strings.
DebrisSpellings == {"DEBRIS", "Debris", "debris"}

\* The risk level of the contract for a perigee and a type string.
RiskOf(perigee, type) ==
    LET raw == 50 + (IF perigee < 500 THEN 20 ELSE 0)
                  - (IF perigee > 35000 THEN 20 ELSE 0)
                  + (IF type \in DebrisSpellings THEN 15 ELSE 0)
    IN IF raw < 0 THEN 0 ELSE IF raw > 100 THEN 100 ELSE raw

\* C23: the risk_level of the object of a record is 50, plus 20 when the
\* perigee is below 500, minus 20 when it is above 35000, plus 15 when the
\* type is debris in any spelling, and lies in 0..100; it is 85 for perigee
\* 400 and DEBRIS and 30 for perigee 40000 and PAYLOAD.
C23_RiskLevel ==
    \A r \in AllRecords :
        (OneDone(r) /\ result.value # List(<<>>)) =>
            LET risk == result.value.list[1].risk_level
            IN /\ risk \in 0..100
               /\ r.PERIGEE.kind = "num" =>
                     risk = RiskOf(r.PERIGEE.n, r.OBJECT_TYPE)
               /\ (r.PERIGEE = Num(400) /\ r.OBJECT_TYPE = "DEBRIS") =>
                     risk = 85
               /\ (r.PERIGEE = Num(40000) /\ r.OBJECT_TYPE = "PAYLOAD") =>
                     risk = 30

\* A record with perigee 400 and type DEBRIS was converted: risk_level 85.
C23_Witness ==
    \E r \in AllRecords :
        /\ OneDone(r)
        /\ r.PERIGEE = Num(400)
        /\ r.OBJECT_TYPE = "DEBRIS"
        /\ result.value # List(<<>>)
        /\ result.value.list[1].risk_level = 85

\* C24: the type of the object of a record is debris exactly when the
\* record's OBJECT_TYPE is debris or unknown in any spelling, and satellite
\* for every other type string and for a record without OBJECT_TYPE.
C24_KindOfObject ==
    \A r \in AllRecords :
        (OneDone(r) /\ result.value # List(<<>>)) =>
            LET type == result.value.list[1].type
            IN /\ type \in {"debris", "satellite"}
               /\ type = "debris" <=>
                     r.OBJECT_TYPE \in DebrisSpellings \cup {"UNKNOWN"}

\* A record of type UNKNOWN was converted into an object of type debris.
C24_Witness ==
    \E r \in AllRecords :
        /\ OneDone(r)
        /\ r.OBJECT_TYPE = "UNKNOWN"
        /\ result.value # List(<<>>)
        /\ result.value.list[1].type = "debris"

\* C25: no two objects of a list that process_space_objects returns have the
\* same id.
C25_IdsUnique ==
    (ListDone /\ result.value # Raised) =>
        \A i, j \in DOMAIN result.value.list :
            result.value.list[i].id = result.value.list[j].id => i = j

----------------------------------------------------------------------------
(* register_client: C26 - C27                                              *)

\* accept returned for websocket c: register_client took its snapshot,
\* which is never empty after initialize.
Registered(c) == updated_objects[c] # <<>>

\* register_client has returned for websocket c.
SyncOver(c) == Registered(c) /\ wpc[c] \in {"loop", "closed"}

\* The batch_update messages websocket c received, in order.
Batches(c) == SelectSeq(inbox[c], LAMBDA m : m.type = "batch_update")

\* The objects of a sequence of messages, one after the other.
RECURSIVE Concat(_)
Concat(ms) ==
    IF ms = <<>> THEN <<>> ELSE Head(ms).objects \o Concat(Tail(ms))

\* ceil(n / d)
CeilDiv(n, d) == (n + d - 1) \div d

\* accept returns for websocket c in this step.
Registers(c) == wpc[c] = "accept" /\ alive[c] /\ wpc'[c] # "accept"

\* C26: register_client appends the websocket to connected_clients and
\* takes all_objects as its snapshot; when every send succeeded, the client
\* has received ceil(n / 10) batch_update messages for a snapshot of n
\* objects, each of 1 to 10 objects, their objects one after the other being
\* the snapshot, and a pause lies between any two batches.
C26_SnapshotInBatches ==
    /\ [](\A c \in Clients :
            SyncOver(c) /\ c \notin sync_failed =>
                /\ Len(Batches(c)) =
                       CeilDiv(Len(updated_objects[c]), batch_size)
                /\ \A i \in DOMAIN Batches(c) :
                       Len(Batches(c)[i].objects) \in 1..batch_size
                /\ Concat(Batches(c)) = updated_objects[c]
                /\ \A i \in 1..(Len(inbox[c]) - 1) :
                       ~(/\ inbox[c][i].type = "batch_update"
                         /\ inbox[c][i + 1].type = "batch_update"))
    /\ [][\A c \in Clients :
            Registers(c) =>
                /\ connected_clients' = Append(connected_clients, c)
                /\ updated_objects'[c] = all_objects]_vars

\* One websocket received the 60 sample objects in six batches, another one
\* the 7 objects of a later update in one.
C26_Witness ==
    \E c, d \in Clients :
        /\ SyncOver(c) /\ c \notin sync_failed
        /\ Len(updated_objects[c]) = 60 /\ Len(Batches(c)) = 6
        /\ SyncOver(d) /\ d \notin sync_failed
        /\ Len(updated_objects[d]) = 7 /\ Len(Batches(d)) = 1

\* A send_json of the initial sync of websocket c raises in this step.
BatchFails(c) == c \notin sync_failed /\ c \in sync_failed'

\* C27: once a batch could not be sent to a websocket during its initial
\* sync, the websocket receives no further batch and is no longer in
\* connected_clients, and the step of the failure changes nothing for the
\* other websockets: not where they are, not what they received, not
\* whether they are registered.
C27_FailedSyncRemovesClient ==
    /\ [](\A c \in sync_failed : c \notin Range(connected_clients))
    /\ [][\A c \in sync_failed : inbox'[c] = inbox[c]]_vars
    /\ [][\A c \in Clients :
            BatchFails(c) =>
                \A d \in Clients \ {c} :
                    /\ wpc'[d] = wpc[d]
                    /\ inbox'[d] = inbox[d]
                    /\ (d \in Range(connected_clients'))
                           <=> (d \in Range(connected_clients))]_vars

----------------------------------------------------------------------------
(* broadcast_message: C28 - C29                                            *)

\* broadcast_message returns in this step.
Finishes == bcast' # bcast /\ bcast'.pc = "done"

\* f[c] summed over the websockets cs.
RECURSIVE Total(_, _)
Total(f, cs) ==
    IF cs = {} THEN 0
    ELSE LET c == CHOOSE x \in cs : TRUE IN f[c] + Total(f, cs \ {c})

\* C28: when no other task changed connected_clients during a broadcast,
\* then at its end one send was attempted to every websocket registered at
\* its start and none to another; a websocket whose send raised is no longer
\* in connected_clients; every other one received the message once and is
\* still registered; and when no send raised, as many messages were
\* received as websockets were registered.
C28_BroadcastOnceEach ==
    [][Finishes /\ ~mutated' =>
          /\ \A c \in Clients :
                attempted'[c] = IF c \in at_start' THEN 1 ELSE 0
          /\ \A c \in at_start' :
                IF received'[c] = attempted'[c]
                THEN received'[c] = 1 /\ c \in Range(connected_clients')
                ELSE received'[c] = 0 /\ c \notin Range(connected_clients')
          /\ (\A c \in at_start' : received'[c] = attempted'[c]) =>
                Total(received', Clients) = Cardinality(at_start')]_vars

\* A broadcast to three registered websockets has ended undisturbed: the
\* send to one of them raised and it is gone, the other two received the
\* message and are registered.
C28_Witness ==
    /\ bcast.pc = "done"
    /\ ~mutated
    /\ at_start = Clients
    /\ \E c \in Clients :
        /\ attempted[c] = 1 /\ received[c] = 0
        /\ Range(connected_clients) = Clients \ {c}
        /\ \A d \in Clients \ {c} : received[d] = 1

\* C29: whatever other tasks do to connected_clients while a broadcast is
\* suspended in a send, at its end one send was attempted to every
\* websocket that was registered from its start to its end, none was sent
\* to twice, and the broadcast removed only websockets whose send raised.
C29_ConcurrentChangeSafe ==
    [][Finishes =>
          /\ \A c \in stayed' : attempted'[c] = 1
          /\ \A c \in Clients : attempted'[c] <= 1
          /\ \A c \in Range(connected_clients) \ Range(connected_clients') :
                received'[c] < attempted'[c]]_vars

----------------------------------------------------------------------------
(* Removing a client: C30                                                  *)

\* list without every x.
Without(list, x) == SelectSeq(list, LAMBDA y : y # x)

\* The finally clause of handle_client runs for connection k in this step.
HandlerLeaves(k) ==
    handler[k] \in {"send", "wait_closed"}
        /\ handler'[k] \in {"returned", "KeyError"}

\* The endpoint of websocket c removes it in this step (lines 228-231).
EndpointLeaves(c) == wpc[c] = "loop" /\ wpc'[c] = "closed"

\* C30: a removal leaves the registry without the client and with every
\* other client as before, whether the client was registered or not, and
\* raises no error: for the finally clause of handle_client, for the except
\* clause of the visualizer's endpoint, and for the removals that end a
\* broadcast.
C30_RemoveIdempotent ==
    /\ [](\A k \in Connections : handler[k] # "KeyError")
    /\ [][\A k \in Connections :
            HandlerLeaves(k) => clients' = clients \ {k}]_vars
    /\ [][\A c \in Clients :
            EndpointLeaves(c) =>
                connected_clients' = Without(connected_clients, c)]_vars
    /\ [][Finishes =>
            /\ \A c \in Clients :
                  received'[c] < attempted'[c] =>
                      c \notin Range(connected_clients')
            /\ \A c \in Range(connected_clients) :
                  received'[c] = attempted'[c] =>
                      c \in Range(connected_clients')]_vars

----------------------------------------------------------------------------
(* A closed connection: C31                                                *)

\* The peer of websocket c closes it in this step.
Closes(c) == alive[c] /\ ~alive'[c]

----------------------------------------------------------------------------
(* The failure counter of the update loop: C32                             *)

\* C32: retry_count[s] counts the failed cycles of session s since its last
\* successful one.  A session about to send an update, fetched or taken from
\* the cache, has the counter at zero; one about to send the maximum-retries
\* message has it at 3; one about to send a retry status has it at 1 or 2.
C32_CounterOfConsecutiveFailures ==
    \A s \in Sessions :
        /\ pc[s] = "send_update" => retry_count[s] = 0
        /\ pc[s] = "send_error" => retry_count[s] = ws_max_retries
        /\ pc[s] = "send_status" => retry_count[s] \in 1..(ws_max_retries - 1)

----------------------------------------------------------------------------
(* Missing credentials: C33                                                *)

\* C33: when a credential of the provider is missing, no session runs its
\* update loop: none gets as far as a fetch, a failed cycle, a status or
\* error message, or a retry.
C33_MissingCredentialsFatal ==
    ~credentials =>
        \A s \in Sessions :
            /\ pc[s] = "closed"
            /\ retry_count[s] = 0
            /\ outbox[s] = NoMsg

----------------------------------------------------------------------------
(* The retry budget of fetch_space_objects: C34                            *)

\* Session s sleeps before a retry.
Sleeping(s) == pc[s] \in {"backoff", "backoff_transport"}

\* C34: a fetch cycle is at attempt 0, 1 or 2, has issued at most 3 upstream
\* requests, and sleeps before a retry only at attempts 0 and 1, so at most
\* twice; what it returns is a list, empty or not; and a session that is
\* scheduled, with time advancing and every await returning, leaves the
\* cycle it is in.
C34_FetchCycleTerminates ==
    /\ [](\A s \in Sessions :
            /\ attempt[s] \in 0..(max_retries - 1)
            /\ reqs[s] <= max_retries
            /\ Sleeping(s) => attempt[s] < max_retries - 1)
    /\ [][\A s \in Sessions : Returns(s) => ~retval[s].is_none]_vars
    /\ InFetch(Solo) ~> ~InFetch(Solo)

\* A cycle at its third attempt, after two sleeps, is about to return.
C34_Witness ==
    /\ pc[Solo] = "closing"
    /\ attempt[Solo] = max_retries - 1
    /\ reqs[Solo] = max_retries
    /\ retval[Solo] = List(<<>>)

(***************************************************************************)
(* CacheManager of src/src/data/cache_manager.py: a data file and a        *)
(* metadata file in one directory.  Every method holds cache_lock and      *)
(* awaits nothing inside it, so one call is one step.                      *)
(***************************************************************************)

\* self.update_interval = timedelta(minutes=30), in minutes.
update_interval == 30

\* The update_cache calls of one run, numbered in order.
UpdateCalls == 1..3

\* Minutes that pass between two calls.
DiskSteps == {10, 20}

\* How far update_cache gets before `except Exception` swallows an error:
\* open() of the data file raises; json.dump(data) raises with the file
\* already truncated; the data file is written and open() of the metadata
\* file raises; the metadata file is truncated and its write raises; or
\* nothing raises.
UpdateOutcomes ==
    {"data_open_raises", "data_dump_raises", "metadata_open_raises",
     "metadata_dump_raises", "ok"}

\* _is_cache_valid: both files exist, the metadata parses and its
\* last_update is less than update_interval old.
IsCacheValid ==
    /\ debris_cache_file.exists
    /\ metadata_file.exists
    /\ metadata_file.whole
    /\ metadata_file.last_update < update_interval

\* update_cache(data): the data file first, the metadata file second, both
\* inside one try whose except only logs.
UpdateCache(outcome) ==
    /\ updates + 1 \in UpdateCalls
    /\ updates' = updates + 1
    /\ debris_cache_file' =
          IF outcome = "data_open_raises" THEN debris_cache_file
          ELSE [exists |-> TRUE, writer |-> updates',
                whole |-> outcome # "data_dump_raises"]
    /\ metadata_file' =
          IF outcome \in {"data_open_raises", "data_dump_raises",
                          "metadata_open_raises"}
          THEN metadata_file
          ELSE [exists |-> TRUE, writer |-> updates', last_update |-> 0,
                whole |-> outcome = "ok"]
    /\ UNCHANGED cached
    /\ UNCHANGED <<app_vars, fanout_vars, esa_vars>>

\* get_cached_data(): None unless the cache is valid and the data file
\* parses; otherwise the content of the data file.
GetCachedData ==
    /\ cached' =
          IF IsCacheValid /\ debris_cache_file.whole
          THEN [hit |-> TRUE, data |-> debris_cache_file.writer,
                judged_by |-> metadata_file.writer]
          ELSE [hit |-> FALSE, data |-> NoUpdate, judged_by |-> NoUpdate]
    /\ cached' # cached
    /\ UNCHANGED <<debris_cache_file, metadata_file, updates>>
    /\ UNCHANGED <<app_vars, fanout_vars, esa_vars>>

\* clear_cache(): unlinks both files.
ClearCache ==
    /\ debris_cache_file.exists \/ metadata_file.exists
    /\ debris_cache_file' = [debris_cache_file EXCEPT !.exists = FALSE]
    /\ metadata_file' = [metadata_file EXCEPT !.exists = FALSE]
    /\ UNCHANGED <<updates, cached>>
    /\ UNCHANGED <<app_vars, fanout_vars, esa_vars>>

\* d minutes pass: the metadata's last_update grows older.  Ages of
\* update_interval and more are all expired and are stored as one.
DiskTick(d) ==
    /\ metadata_file.exists
    /\ metadata_file.last_update < update_interval
    /\ metadata_file' =
          [metadata_file EXCEPT
              !.last_update = Min(metadata_file.last_update + d, update_interval)]
    /\ UNCHANGED <<debris_cache_file, updates, cached>>
    /\ UNCHANGED <<app_vars, fanout_vars, esa_vars>>

CacheNext ==
    \/ \E outcome \in UpdateOutcomes : UpdateCache(outcome)
    \/ GetCachedData
    \/ ClearCache
    \/ \E d \in DiskSteps : DiskTick(d)

CacheSpec == Init /\ [][CacheNext]_vars

(***************************************************************************)
(* C35                                                                     *)
(***************************************************************************)

\* C35: get_cached_data never returns the data written by one update_cache
\* call while judging its freshness by the metadata of another call: a hit
\* is one call's data file together with that same call's metadata.
C35_HitIsOneEntry ==
    cached.hit => cached.data = cached.judged_by

(***************************************************************************)
(* C36                                                                     *)
(***************************************************************************)

\* This step enters broadcast_message: it stands at the first registered
\* client with nothing sent yet, or is over at once when none is registered.
BroadcastBegins ==
    /\ bcast.pc # "sending"
    /\ attempted' = [c \in Clients |-> 0]
    /\ received' = [c \in Clients |-> 0]
    /\ at_start' = Range(connected_clients)
    /\ IF connected_clients = <<>>
       THEN bcast' = [NoBroadcast EXCEPT !.pc = "done"]
       ELSE bcast' = [NoBroadcast EXCEPT !.pc = "sending", !.idx = 1,
                                         !.cur = connected_clients[1]]

\* What fetch_space_data can return when it returns data.
FetchedData == {RealObjects(n) : n \in RealSizes \ {0}}

\* C36: update_with_real_data never leaves a mixed snapshot.  A step changes
\* all_objects only by putting a whole fetched set in its place, nothing of
\* the old set kept, and that step enters broadcast_message once; a
\* broadcast is entered only by such a step; an update without data changes
\* neither all_objects nor the broadcast.
C36_NoMixedSnapshot ==
    [][/\ all_objects' # all_objects =>
            all_objects' \in FetchedData /\ BroadcastBegins
       /\ (bcast.pc # "sending" /\ bcast'.pc = "sending") =>
            all_objects' \in FetchedData /\ BroadcastBegins
       /\ (bcast.pc = "sending") => all_objects' = all_objects]_vars

\* The sample objects a client registered with have been replaced by a
\* fetched set and the update message is on its way to the first client.
C36_Witness ==
    /\ all_objects = RealObjects(7)
    /\ bcast.pc = "sending"
    /\ bcast.idx = 1
    /\ \E c \in Pair : updated_objects[c] = SampleObjects

(***************************************************************************)
(* C37                                                                     *)
(***************************************************************************)

\* C37: every batch of the initial sync of a websocket is cut from the one
\* list that was all_objects when its register_client started, at the
\* batch's own offset, and that list stays what it was although
\* update_with_real_data replaces all_objects during the sync: no client
\* receives an initial sync made of two snapshots.
C37_SyncFromOneSnapshot ==
    /\ [](\A c \in Pair : \A i \in DOMAIN Batches(c) :
            Batches(c)[i].objects =
                Batch(updated_objects[c], (i - 1) * batch_size))
    /\ [][\A c \in Pair :
            /\ Registers(c) => updated_objects'[c] = all_objects
            /\ Registered(c) => updated_objects'[c] = updated_objects[c]]_vars

\* A websocket that registered with the sample objects has received two
\* batches and pauses before the third, while all_objects already is a
\* fetched set whose update message is being broadcast.
C37_Witness ==
    \E c \in Pair :
        /\ wpc[c] = "sleep"
        /\ Len(Batches(c)) = 2
        /\ updated_objects[c] = SampleObjects
        /\ all_objects = RealObjects(7)
        /\ bcast.pc = "sending"

(***************************************************************************)
(* C38                                                                     *)
(***************************************************************************)

\* C38: when all sessions are blocked in wait_for_slot at the same time,
\* each of them is eventually admitted: no waiting session is starved for
\* ever by the others taking every freed slot.
C38_NoWaiterStarves ==
    \A s \in Sessions :
        (\A t \in Sessions : Waiting(t)) ~> (pc[s] = "response")

(***************************************************************************)
(* C39                                                                     *)
(***************************************************************************)

\* C39: the risk level of a record is a function of two things only, its
\* perigee and whether its type string is "debris" in some spelling.  A
\* record of type UNKNOWN becomes an object of type debris and yet has the
\* risk level of a payload with the same perigee: no 15 is added.
C39_RiskByPerigeeAndDebrisString ==
    \A r \in AllRecords :
        (OneDone(r) /\ result.value # List(<<>>)) =>
            LET o == result.value.list[1]
                named_debris == r.OBJECT_TYPE \in DebrisSpellings
            IN /\ o.risk_level =
                      RiskOf(Float(r.PERIGEE),
                             IF named_debris THEN "debris" ELSE "PAYLOAD")
               /\ r.OBJECT_TYPE = "UNKNOWN" =>
                      /\ o.type = "debris"
                      /\ o.risk_level = RiskOf(Float(r.PERIGEE), "PAYLOAD")
                      /\ o.risk_level \in {30, 50, 70}

\* A record of type UNKNOWN with perigee 400 was converted: type debris,
\* risk level 70 as for a payload, not 85.
C39_Witness ==
    \E r \in AllRecords :
        /\ OneDone(r)
        /\ r.OBJECT_TYPE = "UNKNOWN"
        /\ r.PERIGEE = Num(400)
        /\ result.value # List(<<>>)
        /\ result.value.list[1].type = "debris"
        /\ result.value.list[1].risk_level = 70

(***************************************************************************)
(* ESAClient._process_debris_data of src/src/data/esa_client.py: the risk  *)
(* level of one item.                                                      *)
(***************************************************************************)

\* attributes.mass (kg), elements.perigeeAltitude (km) and elements.velocity
\* (km/s) of the items: from nothing and low orbits to heavy objects and
\* geostationary altitudes.
Masses == {0, 500, 1000, 8000}
PerigeeAltitudes == {0, 400, 1000, 1500, 36000}
Velocities == {0, 3, 8}

\* risk_level is kept as an integer: risk_level * RiskScale.  The three
\* factors have the denominators 1000, 1000 and 10 and their mean the
\* denominator 3.
RiskScale == 3000

\* risk_factors of an item, each times 1000:
\* (mass / 1000) * 30, (1 - perigee / 1000) * 40, (velocity / 10) * 30.
RiskFactors(it) ==
    <<30 * it.mass, 40 * (1000 - it.perigee), 3000 * it.velocity>>

\* risk_level = min(100, sum(risk_factors) / len(risk_factors)), times
\* RiskScale.
RiskLevel(it) ==
    LET f == RiskFactors(it)
    IN Min(100 * RiskScale, f[1] + f[2] + f[3])

\* One item goes through the loop body of _process_debris_data and its
\* object is appended.
ProcessDebrisItem ==
    /\ \E m \in Masses, p \in PerigeeAltitudes, v \in Velocities :
          item' = [kind |-> "item", mass |-> m, perigee |-> p, velocity |-> v]
    /\ processed_item' = [kind |-> "object", type |-> "debris",
                          risk_level |-> RiskLevel(item')]
    /\ UNCHANGED <<app_vars, fanout_vars, disk_vars>>

EsaNext == ProcessDebrisItem

EsaSpec == Init /\ [][EsaNext]_vars

(***************************************************************************)
(* C40                                                                     *)
(***************************************************************************)

\* C40: every object that _process_debris_data produces has a risk_level
\* within [0, 100], whatever the mass, the perigee altitude and the velocity
\* of the item are.
C40_RiskLevelClamped ==
    processed_item.kind = "object" =>
        /\ processed_item.risk_level >= 0
        /\ processed_item.risk_level <= 100 * RiskScale

============================================================================
